---- MODULE Spec2Model ----
(***************************************************************************)
(* SeminalInputPass (llvm/lib/Transforms/SeminalInputPass): a FunctionPass *)
(* that collects the operands of scanf calls as "input variables", records *)
(* for every branch or call instruction the input variables it depends on, *)
(* and prints the non-empty entries.                                       *)
(*                                                                         *)
(* IR handles.  A Value is a pair <<f, i>>:                                *)
(*   <<0, k>>            a module-level value (function, global, constant) *)
(*   <<f, 0>>            the Argument of function f                        *)
(*   <<f, i>>, f,i >= 1  the i-th instruction of function f                *)
(* A function body is the sequence of its instructions in program order; a *)
(* terminator closes a basic block, so the block of an instruction is the  *)
(* number of terminators in front of it.                                   *)
(*                                                                         *)
(* Operand layout of a call is LLVM's (CallBase): the arguments come       *)
(* first and the called operand is the LAST operand.                       *)
(***************************************************************************)
EXTENDS Integers, Sequences, FiniteSets, TLC

VARIABLES prog, pc, cur, prev, inputVariables, keyPointDependencies, errs

vars == <<prog, pc, cur, prev, inputVariables, keyPointDependencies, errs>>

\* Longest function body the analysed function is drawn from.
MaxInsts == 4

----------------------------------------------------------------------------
\* Module-level values
Null   == <<0, 0>>      \* nullptr
Scanf  == <<0, 1>>      \* declare @scanf
Log    == <<0, 2>>      \* declare @log
Fmt    == <<0, 3>>      \* @fmt, the format string
G      == <<0, 4>>      \* @g, a global variable
GepG   == <<0, 5>>      \* a constant expression over @g (a User, no Instruction)
ArgX   == <<1, 0>>      \* the argument %x of function 1

FunctionValues == {Scanf, Log}

\* Operands of the constant expressions of the module
ConstOperands(c) == IF c = GepG THEN {G} ELSE {}
ConstExprs == {GepG}

\* Instructions of the module
CallScanf0 == [op |-> "call",  term |-> FALSE, operands |-> <<Scanf>>]
CallScanfX == [op |-> "call",  term |-> FALSE, operands |-> <<Fmt, ArgX, Scanf>>]
CallScanfG == [op |-> "call",  term |-> FALSE, operands |-> <<Fmt, G, Scanf>>]
CallLog    == [op |-> "call",  term |-> FALSE, operands |-> <<G, Log>>]
CallInd    == [op |-> "call",  term |-> FALSE, operands |-> <<G, ArgX>>]
Load       == [op |-> "other", term |-> FALSE, operands |-> <<ArgX>>]
Br         == [op |-> "br",    term |-> TRUE,  operands |-> <<>>]
Ret        == [op |-> "other", term |-> TRUE,  operands |-> <<>>]

InstPool == {CallScanf0, CallScanfX, CallScanfG, CallInd, Load, Br, Ret}

\* Bodies of function 1: non-empty, the last instruction a terminator
Bodies ==
    {b \in UNION {[1..n -> InstPool] : n \in 1..MaxInsts} : b[Len(b)].term}

\* The second function of the module, compiled without debug info
Helper == <<CallScanfG, CallLog, Br>>

----------------------------------------------------------------------------
\* The IR accessors the pass uses

AllInsts == UNION {{<<f, i>> : i \in DOMAIN prog[f]} : f \in DOMAIN prog}

InstAt(h) == prog[h[1]][h[2]]

isaInstruction(u) == u[1] >= 1 /\ u[2] >= 1

getNumOperands(I) == Len(I.operands)

getOperand(I, i) == I.operands[i + 1]

OperandSet(I) == {I.operands[k] : k \in DOMAIN I.operands}

getCalledFunction(I) ==
    LET c == I.operands[Len(I.operands)]
    IN  IF c \in FunctionValues THEN c ELSE Null

getName(fn) == IF fn = Scanf THEN "scanf" ELSE "log"

\* Value::users(): every User that has v among its operands
users(v) ==
    {h \in AllInsts : v \in OperandSet(InstAt(h))} \cup
    {c \in ConstExprs : v \in ConstOperands(c)}

\* Instruction::getParent(): the basic block
getParent(h) ==
    <<h[1], Cardinality({j \in 1..(h[2] - 1) : prog[h[1]][j].term})>>

\* Function 1 carries debug locations (one source line per instruction)
getLineNumber(h) == IF h[1] = 1 THEN h[2] ELSE 0

----------------------------------------------------------------------------
\* Lines written to errs(); inst names the instruction a result line is about
Line(kind, inst, line, vals) ==
    [kind |-> kind, inst |-> inst, line |-> line, vals |-> vals]

EmptyMap == [k \in {} |-> {}]

Put(m, k, s) == [x \in DOMAIN m \cup {k} |-> IF x = k THEN s ELSE m[x]]

\* The pass object: its two member containers, and what it wrote to errs()
This == [iv |-> inputVariables, kpd |-> keyPointDependencies, out |-> errs]

Constructed == [iv |-> {}, kpd |-> EmptyMap, out |-> <<>>]

----------------------------------------------------------------------------
\* detectInputVariables

RECURSIVE insertOperands_OncePerValue(_, _, _)
insertOperands_OncePerValue(call, i, st) ==
    IF i < getNumOperands(call)
    THEN LET arg == getOperand(call, i)
         IN  insertOperands_OncePerValue(call, i + 1,
                 [st EXCEPT !.iv  = @ \cup {arg},
                            !.out = IF arg \in st.iv THEN @
                                    ELSE Append(@, Line("detected", Null, 0, {arg}))])
    ELSE st

RECURSIVE insertOperands(_, _, _)
insertOperands(call, i, st) ==
    IF i < getNumOperands(call)
    THEN LET arg == getOperand(call, i)
         IN  insertOperands(call, i + 1,
                 [st EXCEPT !.iv  = @ \cup {arg},
                            !.out = Append(@, Line("detected", Null, 0, {arg}))])
    ELSE st

RECURSIVE detectInputVariables(_, _, _)
detectInputVariables(f, n, st) ==
    IF n > Len(prog[f]) THEN st
    ELSE LET Inst == prog[f][n]
             calledFunc == getCalledFunction(Inst)
         IN  detectInputVariables(f, n + 1,
                 IF /\ Inst.op = "call"
                    /\ calledFunc # Null
                    /\ getName(calledFunc) = "scanf"
                 THEN insertOperands(Inst, 1, st)
                 ELSE st)

----------------------------------------------------------------------------
\* analyzeInputInfluence

isKeyPoint_BranchOnly(Inst) == Inst.op = "br"

isKeyPoint(Inst) == Inst.op = "br" \/ Inst.op = "call"

isDependentOn_DirectOnly(Inst, inputVar) == Inst \in users(inputVar)

isDependentOn_EarlierOnly(Inst, inputVar) ==
    \E user \in users(inputVar) :
        /\ isaInstruction(user)
        /\ getParent(user) = getParent(Inst)
        /\ user[2] < Inst[2]

isDependentOn(Inst, inputVar) ==
    \E user \in users(inputVar) :
        \/ user = Inst
        \/ /\ isaInstruction(user)
           /\ getParent(user) = getParent(Inst)

RECURSIVE analyzeInputInfluence_SkipEmpty(_, _, _)
analyzeInputInfluence_SkipEmpty(f, n, st) ==
    IF n > Len(prog[f]) THEN st
    ELSE LET influencingInputs ==
                 {inputVar \in st.iv : isDependentOn(<<f, n>>, inputVar)}
         IN  analyzeInputInfluence_SkipEmpty(f, n + 1,
                 IF isKeyPoint(prog[f][n]) /\ influencingInputs # {}
                 THEN [st EXCEPT !.kpd = Put(@, <<f, n>>, influencingInputs)]
                 ELSE st)

RECURSIVE analyzeInputInfluence(_, _, _)
analyzeInputInfluence(f, n, st) ==
    IF n > Len(prog[f]) THEN st
    ELSE LET influencingInputs ==
                 {inputVar \in st.iv : isDependentOn(<<f, n>>, inputVar)}
         IN  analyzeInputInfluence(f, n + 1,
                 IF isKeyPoint(prog[f][n])
                 THEN [st EXCEPT !.kpd = Put(@, <<f, n>>, influencingInputs)]
                 ELSE st)

----------------------------------------------------------------------------
\* printResults

\* The orders in which std::map<Instruction *, ...> can hand out its entries
\* (the keys are compared by address)
Orders(S) ==
    {o \in [1..Cardinality(S) -> S] : \A a, b \in DOMAIN o : o[a] = o[b] => a = b}

RECURSIVE printEntries_NoFilter(_, _, _)
printEntries_NoFilter(order, n, st) ==
    IF n > Len(order) THEN st
    ELSE LET inst   == order[n]
             inputs == st.kpd[inst]
             line   == getLineNumber(inst)
         IN  printEntries_NoFilter(order, n + 1,
                 [st EXCEPT !.out = Append(@, Line("result", inst, line, inputs))])

RECURSIVE printEntries(_, _, _)
printEntries(order, n, st) ==
    IF n > Len(order) THEN st
    ELSE LET inst   == order[n]
             inputs == st.kpd[inst]
             line   == getLineNumber(inst)
         IN  printEntries(order, n + 1,
                 IF inputs # {}
                 THEN [st EXCEPT !.out = Append(@, Line("result", inst, line, inputs))]
                 ELSE st)

printResults(f, order, st) ==
    LET head == [st EXCEPT !.out = Append(@, Line("header", <<f, 0>>, 0, {}))]
        body == printEntries(order, 1, head)
    IN  [body EXCEPT !.out = Append(@, Line("footer", Null, 0, {}))]

----------------------------------------------------------------------------
\* The pass

Init ==
    /\ prog \in {<<b, Helper>> : b \in Bodies}
    /\ pc = "idle"
    /\ cur = 0
    /\ prev = 0
    /\ inputVariables = {}
    /\ keyPointDependencies = EmptyMap
    /\ errs = <<>>

Start_NoClear(f) ==
    /\ pc = "idle"
    /\ pc' = "detect"
    /\ cur' = f
    /\ prev' = cur
    /\ errs' = <<Line("analyzing", <<f, 0>>, 0, {})>>
    /\ UNCHANGED <<prog, inputVariables, keyPointDependencies>>

Start_ClearInputsOnly(f) ==
    /\ pc = "idle"
    /\ pc' = "detect"
    /\ cur' = f
    /\ prev' = cur
    /\ errs' = <<Line("analyzing", <<f, 0>>, 0, {})>>
    /\ inputVariables' = {}
    /\ UNCHANGED <<prog, keyPointDependencies>>

\* runOnFunction, entry: the banner and the two clear() calls.  errs keeps
\* what the pass wrote since this entry.
Start(f) ==
    /\ pc = "idle"
    /\ pc' = "detect"
    /\ cur' = f
    /\ prev' = cur
    /\ errs' = <<Line("analyzing", <<f, 0>>, 0, {})>>
    /\ inputVariables' = {}
    /\ keyPointDependencies' = EmptyMap
    /\ UNCHANGED prog

Store(st) ==
    /\ inputVariables' = st.iv
    /\ keyPointDependencies' = st.kpd
    /\ errs' = st.out

Detect ==
    /\ pc = "detect"
    /\ Store(detectInputVariables(cur, 1, This))
    /\ pc' = "analyze"
    /\ UNCHANGED <<prog, cur, prev>>

Analyze ==
    /\ pc = "analyze"
    /\ Store(analyzeInputInfluence(cur, 1, This))
    /\ pc' = "print"
    /\ UNCHANGED <<prog, cur, prev>>

Report ==
    /\ pc = "print"
    /\ \E order \in Orders(DOMAIN keyPointDependencies) :
          Store(printResults(cur, order, This))
    /\ pc' = "idle"
    /\ UNCHANGED <<prog, cur, prev>>

Next ==
    \/ \E f \in DOMAIN prog : Start(f)
    \/ Detect
    \/ Analyze
    \/ Report

Spec == Init /\ [][Next]_vars

----------------------------------------------------------------------------
\* Vocabulary of the properties, stated on the IR and not through the
\* accessors above

Insts(f) == {<<f, i>> : i \in DOMAIN prog[f]}

IsBranchOrCall(I) == InstAt(I).op \in {"br", "call"}

KeyPoints(f) == {I \in Insts(f) : IsBranchOrCall(I)}

Uses(u, v) == \E k \in DOMAIN InstAt(u).operands : InstAt(u).operands[k] = v

\* No terminator lies between the two instructions of one function
InSameBlock(a, b) ==
    /\ a[1] = b[1]
    /\ \A j \in DOMAIN prog[a[1]] :
          ((a[2] <= j /\ j < b[2]) \/ (b[2] <= j /\ j < a[2])) => ~prog[a[1]][j].term

IsScanfCall(I) ==
    /\ InstAt(I).op = "call"
    /\ InstAt(I).operands[Len(InstAt(I).operands)] = Scanf

ScanfCalls(f) == {I \in Insts(f) : IsScanfCall(I)}

\* <<n, k>>: operand k (counted from 1) of the scanf call at position n,
\* for the operands at index 1 and above (k >= 2)
ScanfOperandSlots(f) ==
    UNION {{<<I[2], k>> : k \in 2..Len(InstAt(I).operands)} : I \in ScanfCalls(f)}

SlotValue(f, p) == prog[f][p[1]].operands[p[2]]

SlotBefore(p, q) == p[1] < q[1] \/ (p[1] = q[1] /\ p[2] <= q[2])

SlotRank(f, p) == Cardinality({q \in ScanfOperandSlots(f) : SlotBefore(q, p)})

DetectedLines == SelectSeq(errs, LAMBDA l : l.kind = "detected")

ResultLines == SelectSeq(errs, LAMBDA l : l.kind = "result")

AfterDetect == pc = "analyze"

AfterPropagation == pc = "print"

AfterReport == pc = "idle" /\ cur # 0

\* What a freshly constructed pass holds after one run on f
FreshRun(f) == analyzeInputInfluence(f, 1, detectInputVariables(f, 1, Constructed))

----------------------------------------------------------------------------
\* C1: after propagation, an input value v is in the influencing set of a
\* key point I exactly when some instruction that uses v is I itself or lies
\* in I's basic block.
C1_SameBlockCriterion ==
    AfterPropagation =>
        \A I \in KeyPoints(cur) : \A v \in inputVariables :
            /\ I \in DOMAIN keyPointDependencies
            /\ v \in keyPointDependencies[I]
                   <=> \E u \in AllInsts : Uses(u, v) /\ (u = I \/ InSameBlock(u, I))

\* C1 witness: v is recorded for I although I does not use v and every user
\* of v in I's block precedes I, and v is left out for a key point J whose
\* block holds no user of v.
C1_Witness ==
    /\ AfterPropagation
    /\ \E I, J \in KeyPoints(cur) : \E v \in inputVariables :
          /\ v \in keyPointDependencies[I]
          /\ ~Uses(I, v)
          /\ \A u \in AllInsts : (Uses(u, v) /\ InSameBlock(u, I)) => u[2] < I[2]
          /\ v \notin keyPointDependencies[J]
          /\ \A u \in AllInsts : Uses(u, v) => ~InSameBlock(u, J)

\* C2: after propagation, an input value that is an operand of a key point
\* is in that key point's influencing set.
C2_DirectUseIncluded ==
    AfterPropagation =>
        \A I \in KeyPoints(cur) : \A v \in inputVariables :
            Uses(I, v) => (I \in DOMAIN keyPointDependencies /\ v \in keyPointDependencies[I])

\* C2 witness: a key point that is the only user of an input value in its
\* block has it recorded.
C2_Witness ==
    /\ AfterPropagation
    /\ \E I \in KeyPoints(cur) : \E v \in inputVariables :
          /\ Uses(I, v)
          /\ \A u \in AllInsts : (Uses(u, v) /\ InSameBlock(u, I)) => u = I
          /\ v \in keyPointDependencies[I]

\* C3: after propagation, the keys of the map are exactly the branch and
\* call instructions of the analysed function, and at no time is an
\* instruction that is neither a branch nor a call a key.
C3_KeysAreKeyPoints ==
    /\ AfterPropagation => DOMAIN keyPointDependencies = KeyPoints(cur)
    /\ \A I \in DOMAIN keyPointDependencies : IsBranchOrCall(I)

\* C3 witness: a key with an empty influencing set next to a non-empty input
\* set, in a function that also has an instruction that is no key point.
C3_Witness ==
    /\ AfterPropagation
    /\ inputVariables # {}
    /\ \E I \in DOMAIN keyPointDependencies : keyPointDependencies[I] = {}
    /\ \E I \in Insts(cur) : I \notin DOMAIN keyPointDependencies

\* C4 (as claimed): after detection the input set is the set of operands at
\* index 1 and above of the scanf calls, operand 0 of such a call is the
\* routine reference, and the routine reference is not in the input set.
C4_Claim ==
    AfterDetect =>
        /\ inputVariables = {SlotValue(cur, p) : p \in ScanfOperandSlots(cur)}
        /\ \A I \in ScanfCalls(cur) : InstAt(I).operands[1] = Scanf
        /\ Scanf \notin inputVariables

\* C5: the result lines of a run and the map entries with a non-empty
\* influencing set correspond one to one, each line carrying its entry's
\* source line and values.
C5_ReportIsNonEmptyEntries ==
    AfterReport =>
        LET R == ResultLines
            NonEmpty == {I \in DOMAIN keyPointDependencies : keyPointDependencies[I] # {}}
        IN  /\ Len(R) = Cardinality(NonEmpty)
            /\ \A I \in NonEmpty : \E k \in DOMAIN R : R[k].inst = I
            /\ \A k \in DOMAIN R :
                  /\ R[k].inst \in NonEmpty
                  /\ R[k].vals = keyPointDependencies[R[k].inst]
                  /\ R[k].line = IF R[k].inst[1] = 1 THEN R[k].inst[2] ELSE 0

\* C5 witness: a finished run whose map has a printed and an unprinted entry.
C5_Witness ==
    /\ AfterReport
    /\ Len(ResultLines) >= 1
    /\ \E I \in DOMAIN keyPointDependencies : keyPointDependencies[I] = {}

\* C6: after a run on B that follows a run on A, the two containers hold
\* what a freshly constructed pass holds after a run on B alone.
C6_SameAsFresh ==
    (AfterReport /\ prev # 0) =>
        LET fresh == FreshRun(cur)
        IN  /\ inputVariables = fresh.iv
            /\ keyPointDependencies = fresh.kpd

\* C6 witness: the earlier run was on another function and left an input
\* value and a key point that the later run does not have.
C6_Witness ==
    /\ AfterReport
    /\ prev # 0
    /\ prev # cur
    /\ FreshRun(prev).iv \ inputVariables # {}
    /\ DOMAIN FreshRun(prev).kpd # {}
    /\ inputVariables # {}

\* C7 (as claimed): once runOnFunction has returned, both containers are
\* empty.
C7_Claim ==
    pc = "idle" => (inputVariables = {} /\ DOMAIN keyPointDependencies = {})

\* C7 (amended): between runs the containers still hold the last run's
\* input values and key points; the entry of the next run empties both
\* before anything else is done.
C7_HeldUntilNextEntry ==
    /\ AfterReport =>
          /\ inputVariables = {SlotValue(cur, p) : p \in ScanfOperandSlots(cur)}
          /\ DOMAIN keyPointDependencies = KeyPoints(cur)
    /\ pc = "detect" => (inputVariables = {} /\ DOMAIN keyPointDependencies = {})

\* C7 witness: a second run has just been entered after a run that left
\* input values and key points behind.
C7_Witness ==
    /\ pc = "detect"
    /\ prev # 0
    /\ FreshRun(prev).iv # {}
    /\ DOMAIN FreshRun(prev).kpd # {}

\* C8 (as claimed): every branch or call instruction of the analysed
\* function has a result line.
C8_Claim ==
    AfterReport =>
        \A I \in KeyPoints(cur) : \E k \in DOMAIN ResultLines : ResultLines[k].inst = I

\* C8 (amended): every branch or call instruction is recorded in the map,
\* and it has a result line exactly when its influencing set is non-empty.
C8_RecordedReportedIfInfluenced ==
    AfterReport =>
        \A I \in KeyPoints(cur) :
            /\ I \in DOMAIN keyPointDependencies
            /\ (\E k \in DOMAIN ResultLines : ResultLines[k].inst = I)
                   <=> keyPointDependencies[I] # {}

\* C8 witness: a recorded key point without a result line in a run that
\* detected input values.
C8_Witness ==
    /\ AfterReport
    /\ inputVariables # {}
    /\ \E I \in KeyPoints(cur) :
          /\ keyPointDependencies[I] = {}
          /\ \A k \in DOMAIN ResultLines : ResultLines[k].inst # I

\* C9 (as claimed): the number of 'detected' lines is the number of members
\* of the input set.
C9_Claim ==
    AfterDetect => Len(DetectedLines) = Cardinality(inputVariables)

\* C9 (amended): there is one 'detected' line per operand at index 1 and
\* above of each scanf call, in program order, so the values of the lines
\* are the input set and there are at least as many lines as members.
C9_OneLinePerOperand ==
    AfterDetect =>
        LET D == DetectedLines
            S == ScanfOperandSlots(cur)
        IN  /\ Len(D) = Cardinality(S)
            /\ \A p \in S : D[SlotRank(cur, p)].vals = {SlotValue(cur, p)}
            /\ UNION {D[k].vals : k \in DOMAIN D} = inputVariables
            /\ Len(D) >= Cardinality(inputVariables)

\* C9 witness: a value detected twice gives more lines than members.
C9_Witness ==
    /\ AfterDetect
    /\ Len(DetectedLines) > Cardinality(inputVariables)

\* C10: after propagation, two key points of one basic block have the same
\* influencing set.
C10_SameBlockSameSet ==
    AfterPropagation =>
        \A I, J \in DOMAIN keyPointDependencies :
            InSameBlock(I, J) => keyPointDependencies[I] = keyPointDependencies[J]

\* C10 witness: two key points of one block with the same non-empty set,
\* one of which uses a recorded value that the other does not use.
C10_Witness ==
    /\ AfterPropagation
    /\ \E I, J \in DOMAIN keyPointDependencies :
          /\ I # J
          /\ InSameBlock(I, J)
          /\ keyPointDependencies[I] = keyPointDependencies[J]
          /\ \E v \in keyPointDependencies[J] : Uses(I, v) /\ ~Uses(J, v)

====
